---- MODULE Spec2Model ----
(***************************************************************************)
(* PXT Phoenix (Pyodide edition): the two browser glue scripts.            *)
(*                                                                         *)
(*   - the buildData glue (src/unnamed/part_001): runBtn / resetBtn,       *)
(*     ensurePyodide, loadEngine, readSettings, buildData, the renderers;  *)
(*   - app.js (src/app.js): boot, buildBtn / resetBtn, getTargetDateISO.   *)
(*                                                                         *)
(* Every async handler is cut at its awaits: one action per continuation.  *)
(* A Build click is a process b \in Builds (clicks are numbered in the     *)
(* order they are issued); everything the script keeps in module-level     *)
(* variables, in the DOM or in the Python globals is shared by all of      *)
(* them.  Strings the code inspects (the target date) are sequences of     *)
(* one-character strings.                                                  *)
(***************************************************************************)
EXTENDS Integers, Sequences, FiniteSets, TLC

\* ------------------------------------------------------------------ bounds

\* Build clicks issued on one page during a session.
MaxClicks == 2
\* Reset clicks on the app.js page (each appends a line to the log).
MaxResets == 1
\* Largest head count in one cell of a department summary.
MaxCount == 2

Builds == 1..MaxClicks

\* ------------------------------------------------------- strings and dates

Digits == {"0", "1", "2", "3", "4", "5", "6", "7", "8", "9"}

EmptyStr == << >>
DateDMY == <<"0", "4", "/", "1", "0", "/", "2", "0", "2", "5">>
DateISO == <<"2", "0", "2", "5", "-", "1", "0", "-", "0", "4">>
DatePadded == <<" ">> \o DateDMY

\* What the user may leave in the date field of the app.js page.
DateInputs == {EmptyStr, DateDMY, DateISO, DatePadded}

\* What the user may leave in the date field of the buildData page.
GlueDateInputs == {EmptyStr, DateDMY}

RECURSIVE trimStart(_)
trimStart(s) == IF s # << >> /\ Head(s) = " " THEN trimStart(Tail(s)) ELSE s

RECURSIVE trimEnd(_)
trimEnd(s) ==
    IF s # << >> /\ s[Len(s)] = " " THEN trimEnd(SubSeq(s, 1, Len(s) - 1)) ELSE s

\* String.prototype.trim
trim(s) == trimEnd(trimStart(s))

\* /^(\d{2})\/(\d{2})\/(\d{4})$/
MatchDMY(s) ==
    /\ Len(s) = 10
    /\ \A i \in {1, 2, 4, 5, 7, 8, 9, 10} : s[i] \in Digits
    /\ s[3] = "/"
    /\ s[6] = "/"

\* YYYY-MM-DD, the form the engine's contract names.
IsISODate(s) ==
    /\ Len(s) = 10
    /\ \A i \in {1, 2, 3, 4, 6, 7, 9, 10} : s[i] \in Digits
    /\ s[5] = "-"
    /\ s[8] = "-"

JsNull == [t |-> "null"]
JsStr(s) == [t |-> "str", v |-> s]

\* app.js getTargetDateISO: null unless the trimmed field is DD/MM/YYYY.
getTargetDateISO(raw) ==
    LET s == trim(raw) IN
    IF ~MatchDMY(s) THEN JsNull
    ELSE JsStr(<<s[7], s[8], s[9], s[10], "-", s[4], s[5], "-", s[1], s[2]>>)

\* x || "" for x a string or null.
OrEmpty(x) == IF x.t = "null" \/ x.v = EmptyStr THEN EmptyStr ELSE x.v

\* ------------------------------------------------------------ Python values

PyNone == [kind |-> "none"]
PyStrOf(s) == [kind |-> "str", val |-> s]
PyDictOf(d) == [kind |-> "dict", val |-> d]
PyListOf(l) == [kind |-> "list", val |-> l]
PyUndef == [kind |-> "undefined"]

\* ------------------------------------------------------------------- files

\* What the user may have selected in the file input (a FileList, in order).
FileSelections == {<< >>, <<"roster.csv", "presence.csv">>}

\* f.arrayBuffer(): the bytes of a file, named here by the file they are of.
BytesOf(name) == <<"bytes", name>>

\* part_001 toBytes: a Uint8Array over the same buffer.
toBytes(buf) == <<"u8", buf>>

\* The settings document the server holds (settings.json), when it holds one.
SettingsDoc == "S1"

\* ------------------------------------------------------- JSON and BuildResult

\* A JSON object is a function from its keys to their values; a key it does not
\* hold reads as undefined.  Lists and the values the renderers do not look
\* into carry a tag.
EmptyObj == [k \in {} |-> 0]
JsList(items) == [t |-> "list", items |-> items]
JsObjOpaque == [t |-> "obj"]
JsNaN == [t |-> "nan"]
JsObj(o) == [t |-> "obj", o |-> o]

Has(o, k) == k \in DOMAIN o

\* The five top-level keys of a BuildResult (README, "Where to put your real logic").
FiveKeys == {"generated_at", "dept_summary", "presence_map", "vet_vto", "swaps"}

DeptIds == {"D1", "D2"}
\* Object.entries walks the keys in insertion order; departments are inserted
\* in this order.
DeptOrder == <<"D1", "D2">>

RegularFields ==
    {"regular_expected_AMZN", "regular_expected_TEMP",
     "regular_present_AMZN", "regular_present_TEMP"}

\* (m.f || 0) for a count m.f that is a number or missing.
NumOr0(m, f) == IF Has(m, f) THEN m[f] ELSE 0

\* (r.f || "") for a text field.
StrOrEmpty(r, f) == IF Has(r, f) THEN r[f] ELSE ""

\* r.present ? "✔" : ""
Tick(r) == IF Has(r, "present") /\ r["present"] THEN "Y" ELSE ""

\* The keys of obj, in Object.entries order.
EntriesOf(obj) == SelectSeq(DeptOrder, LAMBDA k : Has(obj, k))

\* One <tr> of the Department Summary table.
SummaryRow(dept, m) ==
    << dept,
       NumOr0(m, "regular_expected_AMZN") + NumOr0(m, "regular_expected_TEMP"),
       NumOr0(m, "regular_present_AMZN") + NumOr0(m, "regular_present_TEMP"),
       NumOr0(m, "swap_out"), NumOr0(m, "swap_in_expected"),
       NumOr0(m, "swap_in_present"), NumOr0(m, "vet_accept"),
       NumOr0(m, "vet_present"), NumOr0(m, "vto_accept") >>

\* renderSummaryBlock: the rows come from summary.by_department || {}.
renderSummaryBlock(summary) ==
    LET byDept == IF Has(summary, "by_department")
                  THEN summary["by_department"] ELSE EmptyObj
        keys == EntriesOf(byDept)
    IN [ok |-> TRUE,
        html |-> [h |-> "Department Summary",
                  rows |-> [i \in 1..Len(keys) |-> SummaryRow(keys[i], byDept[keys[i]])]]]

VetRow(r) ==
    << StrOrEmpty(r, "work_date"), StrOrEmpty(r, "type"), StrOrEmpty(r, "eid"),
       StrOrEmpty(r, "dept_id"), StrOrEmpty(r, "management_area_id"),
       StrOrEmpty(r, "employment_type"), Tick(r) >>

\* (x || []) for x a list, an object or missing; .map and .length exist on a
\* list only.
IsList(x) == x.t = "list"

\* renderVetBlock: (vet.records || []).map(...) throws a TypeError when records
\* is not an array.
renderVetBlock(vet) ==
    LET recs == IF Has(vet, "records") THEN vet["records"] ELSE JsList(<< >>) IN
    IF ~IsList(recs) THEN [ok |-> FALSE]
    ELSE [ok |-> TRUE,
          html |-> [h |-> "VET / VTO",
                    rows |-> [i \in 1..Len(recs.items) |-> VetRow(recs.items[i])]]]

SwapRow(r) ==
    << StrOrEmpty(r, "skip_date"), StrOrEmpty(r, "work_date"), StrOrEmpty(r, "eid"),
       StrOrEmpty(r, "dept_id"), StrOrEmpty(r, "management_area_id"),
       StrOrEmpty(r, "employment_type"), Tick(r) >>

SwapList(sw, k) == IF Has(sw, k) THEN sw[k] ELSE JsList(<< >>)

\* block(title, arr) of renderSwapsBlock.
SwapBlock(title, arr) ==
    [title |-> title, n |-> Len(arr.items),
     rows |-> [i \in 1..Len(arr.items) |-> SwapRow(arr.items[i])]]

\* renderSwapsBlock: arr.map throws a TypeError when a list is not an array.
renderSwapsBlock(sw) ==
    LET out == SwapList(sw, "swap_out")
        inE == SwapList(sw, "swap_in_expected")
        inP == SwapList(sw, "swap_in_present")
    IN IF ~(IsList(out) /\ IsList(inE) /\ IsList(inP)) THEN [ok |-> FALSE]
       ELSE [ok |-> TRUE,
             html |-> [h |-> "Swaps",
                       rows |-> << SwapBlock("Swap OUT", out),
                                   SwapBlock("Swap IN (expected)", inE),
                                   SwapBlock("Swap IN (present)", inP) >>]]

\* json.dumps(res): the text of res; a float NaN is written as the bare token NaN.
json_dumps(res) == <<"json", res>>

HasNaN(res) ==
    /\ res.t = "obj"
    /\ Has(res.o, "presence_map")
    /\ res.o["presence_map"].t = "nan"

\* JSON.parse: a SyntaxError on the token NaN, otherwise the value written.
JSON_parse(text) ==
    IF HasNaN(text[2]) THEN [ok |-> FALSE] ELSE [ok |-> TRUE, v |-> text[2]]

\* ----------------------------------------------------------- the engine

\* engine_pyodide.py is a placeholder the deployer fills in (README): build_all
\* is any function of its three positional arguments.  These are the results it
\* is let to return here; the last argument of each names the shape.
Metrics1 ==
    [regular_expected_AMZN |-> 1, regular_present_AMZN |-> 1,
     regular_expected_TEMP |-> 1, regular_present_TEMP |-> 0]

VetRec1 ==
    [work_date |-> "2025-10-04", type |-> "VET", eid |-> "E1", dept_id |-> "D1",
     present |-> TRUE]

SwapRec1 ==
    [skip_date |-> "2025-10-03", work_date |-> "2025-10-04", eid |-> "E1",
     dept_id |-> "D1"]

SwapsGood ==
    [swap_out |-> JsList(<< >>), swap_in_expected |-> JsList(<<SwapRec1>>),
     swap_in_present |-> JsList(<< >>)]

BuildResultOf(ds, vv, pm) ==
    JsObj([generated_at |-> "T", dept_summary |-> ds, presence_map |-> pm,
           vet_vto |-> vv, swaps |-> SwapsGood])

\* dept_summary.by_department.D1, the shape renderSummaryBlock reads.
ResWrapped ==
    BuildResultOf([by_department |-> [D1 |-> Metrics1]],
                  [records |-> JsList(<<VetRec1>>)], JsObjOpaque)

\* dept_summary.D1, keyed by department id.
ResFlat ==
    BuildResultOf([D1 |-> Metrics1], [records |-> JsList(<<VetRec1>>)], JsObjOpaque)

\* vet_vto.records a mapping (by employee id) instead of a list.
ResVetDict ==
    BuildResultOf([by_department |-> [D1 |-> Metrics1]],
                  [records |-> JsObjOpaque], JsObjOpaque)

\* A float NaN somewhere in the presence map (pandas' missing value).
ResNaN ==
    BuildResultOf([by_department |-> [D1 |-> Metrics1]],
                  [records |-> JsList(<<VetRec1>>)], JsNaN)

\* build_all returning None.
ResNone == JsNull

EngineResults == {ResWrapped, ResVetDict, ResNaN, ResNone}

\* What a run of the Python snippet ends in: a value, or an exception.
PyReturn(v) == [raised |-> FALSE, v |-> v]
PyRaise == [raised |-> TRUE]
NoOutcome == [raised |-> FALSE]

\* ====================================================================
\* The buildData glue (src/unnamed/part_001)
\* ====================================================================

VARIABLES
    fileInput,        \* #fileInput.files
    targetDate,       \* #targetDate.value
    status,           \* #status.textContent
    badge,            \* #badge.textContent, with the build it was written by
    summary,          \* #summary.innerHTML, with the build it was written by
    vet,              \* #vet.innerHTML, likewise
    swaps,            \* #swaps.innerHTML, likewise
    audit,            \* #audit.innerHTML
    alerts,           \* alert() dialogs shown so far
    pyodidePromise,   \* the module-level pyodidePromise and the state of its promise
    loadPyodideCalls, \* calls of loadPyodide
    loadPackageCalls, \* calls of py.loadPackage
    pyGlobals,        \* py.globals: JS_FILE_MAP, JS_SETTINGS, JS_TARGET_DATE
    pyQueue,          \* builds whose snippet is on the Python event loop, oldest first
    settingsFetches,  \* fetch("settings.json") calls
    clicks,           \* runBtn clicks so far
    build             \* per click: where its handler is, and its locals

glueVars ==
    << fileInput, targetDate, status, badge, summary, vet, swaps, audit, alerts,
       pyodidePromise, loadPyodideCalls, loadPackageCalls, pyGlobals, pyQueue,
       settingsFetches, clicks, build >>

domVars == << badge, summary, vet, swaps, audit >>
runtimeVars == << pyodidePromise, loadPyodideCalls, loadPackageCalls >>

\* app.js (src/app.js) keeps its own page.
VARIABLES
    csvFiles,         \* #csvFiles.files
    dateEl,           \* #targetDate.value on the app.js page
    logEl,            \* #log.textContent, one entry per log() line
    SETTINGS,         \* the module-level SETTINGS
    pyodide,          \* the module-level pyodide
    boot,             \* where boot() is
    engineFile,       \* whether /engine_pyodide.py has been written
    appFetches,       \* fetch(SETTINGS_URL) calls
    appGlobals,       \* pyodide.globals: files_py, target_date_py, settings_py
    appQueue,         \* builds whose snippet is on the Python event loop, oldest first
    appAlerts,        \* alert() dialogs shown so far
    console,          \* what console.log(result) printed last
    appClicks,        \* buildBtn clicks so far
    appResets,        \* resetBtn clicks so far
    appBuild          \* per click: where its handler is, and its locals

appVars ==
    << csvFiles, dateEl, logEl, SETTINGS, pyodide, boot, engineFile, appFetches,
       appGlobals, appQueue, appAlerts, console, appClicks, appResets, appBuild >>

\* What an action of one page leaves alone: the other page.
offGlue == appVars
offApp == glueVars

EmptyHtml == [h |-> "", rows |-> << >>]
\* A section nobody has rendered into (src 0), or cleared by Reset.
Blank == [src |-> 0, html |-> EmptyHtml]
BadgeCleared == [src |-> 0, text |-> <<"Data as of: ", "-">>]
BadgeInitial == [src |-> 0, text |-> << >>]

NoArgs == << >>

\* A click that has not been issued yet.
NotStarted ==
    [pc |-> "init", files |-> << >>, idx |-> 0, fileMap |-> EmptyObj,
     settings |-> PyUndef, injected |-> NoArgs,
     exec |-> NoArgs, out |-> NoOutcome, err |-> "", cleared |-> FALSE]

\* Where a click handler that has not returned yet is waiting: the awaits of
\* buildData, in order.
Pending ==
    {"await_py", "await_engine_fetch", "await_engine_run", "await_settings",
     "await_file", "await_run", "await_result"}

\* A handler that has returned: its locals are gone.
Finished(how, kind) == [NotStarted EXCEPT !.pc = how, !.err = kind]

GlueInit ==
    /\ fileInput = << >>
    /\ targetDate = EmptyStr
    /\ status = ""
    /\ badge = BadgeInitial
    /\ summary = Blank
    /\ vet = Blank
    /\ swaps = Blank
    /\ audit = ""
    /\ alerts = 0
    /\ pyodidePromise = "null"
    /\ loadPyodideCalls = 0
    /\ loadPackageCalls = 0
    /\ pyGlobals = [JS_FILE_MAP |-> PyUndef, JS_SETTINGS |-> PyUndef,
                    JS_TARGET_DATE |-> PyUndef]
    /\ pyQueue = << >>
    /\ settingsFetches = 0
    /\ clicks = 0
    /\ build = [b \in Builds |-> NotStarted]

\* The user picks files in the file dialog.
SelectFiles(fs) ==
    /\ fs # fileInput
    /\ fileInput' = fs
    /\ UNCHANGED << offGlue, targetDate, status, domVars, alerts, runtimeVars, pyGlobals,
                    pyQueue, settingsFetches, clicks, build >>

\* The user edits the date field.
TypeDate(d) ==
    /\ d # targetDate
    /\ targetDate' = d
    /\ UNCHANGED << offGlue, fileInput, status, domVars, alerts, runtimeVars, pyGlobals,
                    pyQueue, settingsFetches, clicks, build >>

\* A runBtn click with no file selected that reports through #status as well.
RunClickNoFilesStatus ==
    /\ clicks < MaxClicks
    /\ Len(fileInput) = 0
    /\ clicks' = clicks + 1
    /\ alerts' = alerts + 1
    /\ status' = "Please select your daily CSVs first."
    /\ build' = [build EXCEPT ![clicks + 1] = Finished("returned", "")]
    /\ UNCHANGED << offGlue, fileInput, targetDate, domVars, runtimeVars, pyGlobals,
                    pyQueue, settingsFetches >>

\* runBtn click with no file selected: the alert, and nothing else.
RunClickNoFiles ==
    /\ clicks < MaxClicks
    /\ Len(fileInput) = 0
    /\ clicks' = clicks + 1
    /\ alerts' = alerts + 1
    /\ build' = [build EXCEPT ![clicks + 1] = Finished("returned", "")]
    /\ UNCHANGED << offGlue, fileInput, targetDate, status, domVars, runtimeVars, pyGlobals,
                    pyQueue, settingsFetches >>

\* ensurePyodide without the check of line 5: every call starts a load.
ensurePyodideEachCall ==
    /\ pyodidePromise' = "loading"
    /\ loadPyodideCalls' = loadPyodideCalls + 1
    /\ UNCHANGED loadPackageCalls

\* ensurePyodide, up to its return: the first call starts the load and keeps
\* its promise, every later call returns the promise kept.
ensurePyodide ==
    IF pyodidePromise # "null"
    THEN UNCHANGED runtimeVars
    ELSE /\ pyodidePromise' = "loading"
         /\ loadPyodideCalls' = loadPyodideCalls + 1
         /\ UNCHANGED loadPackageCalls

\* runBtn click with files: buildData up to `await ensurePyodide()`.
RunClick ==
    /\ clicks < MaxClicks
    /\ Len(fileInput) > 0
    /\ clicks' = clicks + 1
    /\ status' = "Loading Pyodide..."
    /\ ensurePyodide
    /\ build' = [build EXCEPT ![clicks + 1].pc = "await_py",
                              ![clicks + 1].files = fileInput]
    /\ UNCHANGED << offGlue, fileInput, targetDate, domVars, alerts, pyGlobals, pyQueue,
                    settingsFetches >>

\* loadPyodide settles; on success the package load starts.
LoadPyodideSettles(ok) ==
    /\ pyodidePromise = "loading"
    /\ IF ok
       THEN /\ pyodidePromise' = "loading_packages"
            /\ loadPackageCalls' = loadPackageCalls + 1
       ELSE /\ pyodidePromise' = "rejected"
            /\ UNCHANGED loadPackageCalls
    /\ UNCHANGED << offGlue, fileInput, targetDate, status, domVars, alerts, loadPyodideCalls,
                    pyGlobals, pyQueue, settingsFetches, clicks, build >>

\* py.loadPackage settles, and with it pyodidePromise.
LoadPackageSettles(ok) ==
    /\ pyodidePromise = "loading_packages"
    /\ pyodidePromise' = IF ok THEN "resolved" ELSE "rejected"
    /\ UNCHANGED << offGlue, fileInput, targetDate, status, domVars, alerts, loadPyodideCalls,
                    loadPackageCalls, pyGlobals, pyQueue, settingsFetches, clicks,
                    build >>

\* A catch that logs to the console only.
CatchQuiet(b, kind) ==
    /\ UNCHANGED status
    /\ build' = [build EXCEPT ![b] = Finished("failed", kind)]

\* The catch of the click handler: console.error and the error status.
Catch(b, kind) ==
    /\ status' = "Error: " \o kind
    /\ build' = [build EXCEPT ![b] = Finished("failed", kind)]

\* `await ensurePyodide()` settles: on to loadEngine and its fetch, or the catch.
AfterEnsurePyodide(b) ==
    /\ build[b].pc = "await_py"
    /\ pyodidePromise \in {"resolved", "rejected"}
    /\ IF pyodidePromise = "resolved"
       THEN /\ status' = "Preparing engine..."
            /\ build' = [build EXCEPT ![b].pc = "await_engine_fetch"]
       ELSE Catch(b, "runtime")
    /\ UNCHANGED << offGlue, fileInput, targetDate, domVars, alerts, runtimeVars, pyGlobals,
                    pyQueue, settingsFetches, clicks >>

\* loadEngine: fetch("engine_pyodide.py").then(r => r.text()) settles; the text
\* is handed to py.runPythonAsync.
EngineFetched(b, ok) ==
    /\ build[b].pc = "await_engine_fetch"
    /\ IF ok
       THEN /\ build' = [build EXCEPT ![b].pc = "await_engine_run"]
            /\ UNCHANGED status
       ELSE Catch(b, "engine fetch")
    /\ UNCHANGED << offGlue, fileInput, targetDate, domVars, alerts, runtimeVars, pyGlobals,
                    pyQueue, settingsFetches, clicks >>

\* loadEngine: the engine's code has run (build_all is defined); buildData goes
\* on to readSettings, which starts the fetch of settings.json.
EngineLoaded(b, ok) ==
    /\ build[b].pc = "await_engine_run"
    /\ IF ok
       THEN /\ status' = "Reading settings..."
            /\ settingsFetches' = settingsFetches + 1
            /\ build' = [build EXCEPT ![b].pc = "await_settings"]
       ELSE /\ Catch(b, "engine")
            /\ UNCHANGED settingsFetches
    /\ UNCHANGED << offGlue, fileInput, targetDate, domVars, alerts, runtimeVars, pyGlobals,
                    pyQueue, clicks >>

\* readSettings: fetch("settings.json").then(r => r.json()).  A missing or
\* unreadable document rejects (the fetch fails, or r.json() fails on the 404
\* page); otherwise buildData goes into its loop over the files.
SettingsOutcomes == {"loaded", "absent"}

readSettings(outcome) ==
    IF outcome = "loaded" THEN [ok |-> TRUE, v |-> PyDictOf(SettingsDoc)]
    ELSE [ok |-> FALSE]

SettingsSettled(b, outcome) ==
    /\ build[b].pc = "await_settings"
    /\ LET r == readSettings(outcome) IN
       IF r.ok
       THEN /\ build' = [build EXCEPT ![b].pc = "await_file",
                                      ![b].settings = r.v,
                                      ![b].idx = 1]
            /\ UNCHANGED status
       ELSE Catch(b, "settings")
    /\ UNCHANGED << offGlue, fileInput, targetDate, domVars, alerts, runtimeVars, pyGlobals,
                    pyQueue, settingsFetches, clicks >>

\* The arguments the snippet's build_all call reads from the globals:
\* build_all(JS_FILE_MAP.to_py(), JS_SETTINGS.to_py(), JS_TARGET_DATE).
GlueCallArgs(g) == << g.JS_FILE_MAP, g.JS_SETTINGS, g.JS_TARGET_DATE >>

\* f.arrayBuffer() of the file at idx settles.  After the last file: the date
\* field is read, the three globals are set and py.runPythonAsync(pyCode) is
\* called, all in one turn; the snippet itself runs when the Python event loop
\* gets to it.
FileRead(b, ok) ==
    /\ build[b].pc = "await_file"
    /\ LET me == build[b]
           name == me.files[me.idx]
           fm == [k \in DOMAIN me.fileMap \cup {name} |->
                    IF k = name THEN toBytes(BytesOf(name)) ELSE me.fileMap[k]]
           g == [JS_FILE_MAP |-> PyDictOf(fm), JS_SETTINGS |-> me.settings,
                 JS_TARGET_DATE |-> PyStrOf(OrEmpty(JsStr(targetDate)))]
       IN
       IF ~ok
       THEN /\ Catch(b, "file")
            /\ UNCHANGED << pyGlobals, pyQueue >>
       ELSE IF me.idx < Len(me.files)
       THEN /\ build' = [build EXCEPT ![b].fileMap = fm, ![b].idx = me.idx + 1]
            /\ UNCHANGED << status, pyGlobals, pyQueue >>
       ELSE /\ pyGlobals' = g
            /\ status' = "Processing in browser..."
            /\ pyQueue' = Append(pyQueue, b)
            /\ build' = [build EXCEPT ![b].fileMap = fm,
                                      ![b].injected = GlueCallArgs(g),
                                      ![b].pc = "await_run"]
    /\ UNCHANGED << offGlue, fileInput, targetDate, domVars, alerts, runtimeVars,
                    settingsFetches, clicks >>

\* py.runPythonAsync hands the snippet to Pyodide's event loop as a task, and
\* the loop hands its outcome back to the awaiting handler in a later turn;
\* both happen in the order the snippets were queued.  NextToRun is the build
\* whose snippet the loop starts next.
NextToRun(queue, procs, b) ==
    \E i \in 1..Len(queue) :
        /\ queue[i] = b
        /\ procs[b].pc = "await_run"
        /\ \A j \in 1..(i - 1) : procs[queue[j]].pc = "await_result"

\* The Python event loop runs the oldest queued snippet: build_all reads the
\* globals as they are now, and returns or raises.
PythonRuns(b, outcome) ==
    /\ NextToRun(pyQueue, build, b)
    /\ UNCHANGED pyQueue
    /\ build' = [build EXCEPT ![b].pc = "await_result",
                              ![b].exec = GlueCallArgs(pyGlobals),
                              ![b].out = outcome]
    /\ UNCHANGED << offGlue, fileInput, targetDate, status, domVars, alerts, runtimeVars,
                    pyGlobals, settingsFetches, clicks >>

\* data.k || dflt, for a key of the parsed result.
FieldOr(data, k, dflt) == IF Has(data, k) THEN data[k] ELSE dflt

\* "Data as of: " + (data.generated_at || new Date().toISOString())
BadgeText(data) == <<"Data as of: ", FieldOr(data, "generated_at", "now")>>

\* How far the tail of buildData and the four render calls of the click handler
\* get on the snippet's outcome: the step that throws, or "done".
RenderOutcome(out) ==
    IF out.raised THEN "build_all"
    ELSE LET parsed == JSON_parse(json_dumps(out.v)) IN
         IF ~parsed.ok THEN "JSON"
         ELSE IF parsed.v.t = "null" THEN "data"
         ELSE LET data == parsed.v.o IN
              IF ~renderSummaryBlock(FieldOr(data, "dept_summary", EmptyObj)).ok
              THEN "renderSummaryBlock"
              ELSE IF ~renderVetBlock(
                         FieldOr(data, "vet_vto", [records |-> JsList(<< >>)])).ok
              THEN "renderVetBlock"
              ELSE IF ~renderSwapsBlock(FieldOr(data, "swaps", EmptyObj)).ok
              THEN "renderSwapsBlock"
              ELSE "done"

\* `await py.runPythonAsync(pyCode)` settles.  The rest of buildData ("Done.",
\* JSON.parse, the badge) and the four render calls run in one turn; a throw at
\* any of them leaves what was written before it and goes to the catch.
Resume(b) ==
    /\ build[b].pc = "await_result"
    /\ pyQueue # << >>
    /\ Head(pyQueue) = b
    /\ pyQueue' = Tail(pyQueue)
    /\ LET out == build[b].out
           how == RenderOutcome(out)
           data == out.v.o
           wroteBadge == how \in {"renderSummaryBlock", "renderVetBlock",
                                  "renderSwapsBlock", "done"}
           wroteSummary == how \in {"renderVetBlock", "renderSwapsBlock", "done"}
           wroteVet == how \in {"renderSwapsBlock", "done"}
           wroteSwaps == how = "done"
       IN
       /\ badge' = IF wroteBadge THEN [src |-> b, text |-> BadgeText(data)] ELSE badge
       /\ summary' =
            IF wroteSummary
            THEN [src |-> b,
                  html |-> renderSummaryBlock(FieldOr(data, "dept_summary", EmptyObj)).html]
            ELSE summary
       /\ vet' =
            IF wroteVet
            THEN [src |-> b,
                  html |-> renderVetBlock(
                             FieldOr(data, "vet_vto", [records |-> JsList(<< >>)])).html]
            ELSE vet
       /\ swaps' =
            IF wroteSwaps
            THEN [src |-> b,
                  html |-> renderSwapsBlock(FieldOr(data, "swaps", EmptyObj)).html]
            ELSE swaps
       /\ audit' = IF how = "done" THEN "" ELSE audit
       /\ IF how = "done"
          THEN /\ status' = "Done."
               /\ build' = [build EXCEPT ![b] = Finished("done", "")]
          ELSE Catch(b, how)
    /\ UNCHANGED << offGlue, fileInput, targetDate, alerts, runtimeVars, pyGlobals,
                    settingsFetches, clicks >>

\* resetBtn click.  The handler touches the page only: a build that is waiting
\* goes on waiting, and `cleared` records that the page was reset under it.
Reset ==
    /\ fileInput' = << >>
    /\ summary' = Blank
    /\ vet' = Blank
    /\ swaps' = Blank
    /\ audit' = ""
    /\ status' = "Cleared. (Ephemeral mode)"
    /\ badge' = BadgeCleared
    /\ build' = [b \in Builds |->
                   IF build[b].pc \in Pending
                   THEN [build[b] EXCEPT !.cleared = TRUE]
                   ELSE build[b]]
    /\ UNCHANGED << offGlue, targetDate, alerts, runtimeVars, pyGlobals, pyQueue,
                    settingsFetches, clicks >>

GlueNext ==
    \/ \E fs \in FileSelections : SelectFiles(fs)
    \/ \E d \in GlueDateInputs : TypeDate(d)
    \/ RunClickNoFiles
    \/ RunClick
    \/ \E ok \in BOOLEAN : LoadPyodideSettles(ok)
    \/ \E ok \in BOOLEAN : LoadPackageSettles(ok)
    \/ \E b \in Builds : AfterEnsurePyodide(b)
    \/ \E b \in Builds, ok \in BOOLEAN : EngineFetched(b, ok)
    \/ \E b \in Builds, ok \in BOOLEAN : EngineLoaded(b, ok)
    \/ \E b \in Builds, o \in SettingsOutcomes : SettingsSettled(b, o)
    \/ \E b \in Builds, ok \in BOOLEAN : FileRead(b, ok)
    \/ \E b \in Builds, r \in EngineResults : PythonRuns(b, PyReturn(r))
    \/ \E b \in Builds : PythonRuns(b, PyRaise)
    \/ \E b \in Builds : Resume(b)
    \/ Reset

\* ====================================================================
\* app.js (src/app.js)
\* ====================================================================

AppNotStarted ==
    [pc |-> "init", files |-> << >>, idx |-> 0, tuples |-> << >>,
     injected |-> NoArgs, exec |-> NoArgs, ret |-> NoOutcome, out |-> NoOutcome,
     err |-> ""]

AppFinished(how, kind) == [AppNotStarted EXCEPT !.pc = how, !.err = kind]

NothingLogged == [t |-> "nothing"]

\* The script runs boot() as it loads: the first log line and the call of
\* loadPyodide are behind it when the page is first seen.
AppInit ==
    /\ csvFiles = << >>
    /\ dateEl = EmptyStr
    /\ logEl = <<"Loading Pyodide...">>
    /\ SETTINGS = JsNull
    /\ pyodide = "null"
    /\ boot = "loading_pyodide"
    /\ engineFile = FALSE
    /\ appFetches = 0
    /\ appGlobals = [files_py |-> PyUndef, target_date_py |-> PyUndef,
                     settings_py |-> PyUndef]
    /\ appQueue = << >>
    /\ appAlerts = 0
    /\ console = NothingLogged
    /\ appClicks = 0
    /\ appResets = 0
    /\ appBuild = [b \in Builds |-> AppNotStarted]

\* log(msg): one more line in #log (the clock time in front of it is left out).
log(msg) == logEl' = Append(logEl, msg)

\* pyodide.toPy of the settings: a dict, or None for null.
toPy(x) == IF x.t = "null" THEN PyNone ELSE PyDictOf(x.o)

AppSelectFiles(fs) ==
    /\ fs # csvFiles
    /\ csvFiles' = fs
    /\ UNCHANGED << offApp, dateEl, logEl, SETTINGS, pyodide, boot, engineFile,
                    appFetches, appGlobals, appQueue, appAlerts, console, appClicks,
                    appResets, appBuild >>

AppTypeDate(d) ==
    /\ d # dateEl
    /\ dateEl' = d
    /\ UNCHANGED << offApp, csvFiles, logEl, SETTINGS, pyodide, boot, engineFile,
                    appFetches, appGlobals, appQueue, appAlerts, console, appClicks,
                    appResets, appBuild >>

\* boot: `await loadPyodide(...)` settles.  On success pyodide is set and the
\* fetch of settings.json starts; a rejection ends boot (nothing catches it).
BootPyodideSettles(ok) ==
    /\ boot = "loading_pyodide"
    /\ IF ok
       THEN /\ pyodide' = "ready"
            /\ log("Pyodide ready")
            /\ appFetches' = appFetches + 1
            /\ boot' = "fetching_settings"
       ELSE /\ boot' = "failed"
            /\ UNCHANGED << pyodide, logEl, appFetches >>
    /\ UNCHANGED << offApp, csvFiles, dateEl, SETTINGS, engineFile, appGlobals,
                    appQueue, appAlerts, console, appClicks, appResets, appBuild >>

FetchOutcomes == {"ok", "not_found", "rejected"}

\* boot: `await fetch(SETTINGS_URL)` settles.  r.ok goes on to r.json(); a
\* response that is not ok, or a rejected fetch, logs and goes on to write
\* the engine file, after which boot is over.
BootFetchSettles(outcome) ==
    /\ boot = "fetching_settings"
    /\ IF outcome = "ok"
       THEN /\ boot' = "parsing_settings"
            /\ UNCHANGED << logEl, engineFile >>
       ELSE /\ log(IF outcome = "not_found"
                   THEN "settings.json not found - continuing with null"
                   ELSE "settings.json fetch failed - continuing")
            /\ engineFile' = TRUE
            /\ boot' = "done"
    /\ UNCHANGED << offApp, csvFiles, dateEl, SETTINGS, pyodide, appFetches,
                    appGlobals, appQueue, appAlerts, console, appClicks, appResets,
                    appBuild >>

\* boot: `await r.json()` settles; then the engine file is written.
BootJsonSettles(ok) ==
    /\ boot = "parsing_settings"
    /\ IF ok
       THEN /\ SETTINGS' = JsObj(SettingsDoc)
            /\ log("Loaded settings.json")
       ELSE /\ log("settings.json fetch failed - continuing")
            /\ UNCHANGED SETTINGS
    /\ engineFile' = TRUE
    /\ boot' = "done"
    /\ UNCHANGED << offApp, csvFiles, dateEl, pyodide, appFetches, appGlobals,
                    appQueue, appAlerts, console, appClicks, appResets, appBuild >>

\* The catch of the buildBtn handler: console.error, the log line, the alert.
AppCatch(b, kind) ==
    /\ log("ERROR: " \o kind)
    /\ appAlerts' = appAlerts + 1
    /\ appBuild' = [appBuild EXCEPT ![b] = AppFinished("failed", kind)]

\* buildBtn click with no file selected.
BuildClickNoFiles ==
    /\ appClicks < MaxClicks
    /\ Len(csvFiles) = 0
    /\ appClicks' = appClicks + 1
    /\ appAlerts' = appAlerts + 1
    /\ appBuild' = [appBuild EXCEPT ![appClicks + 1] = AppFinished("returned", "")]
    /\ UNCHANGED << offApp, csvFiles, dateEl, logEl, SETTINGS, pyodide, boot,
                    engineFile, appFetches, appGlobals, appQueue, console, appResets >>

\* buildBtn click with files: filesToPyTuples up to its first f.arrayBuffer().
BuildClick ==
    /\ appClicks < MaxClicks
    /\ Len(csvFiles) > 0
    /\ appClicks' = appClicks + 1
    /\ appBuild' = [appBuild EXCEPT ![appClicks + 1].pc = "await_file",
                                    ![appClicks + 1].files = csvFiles,
                                    ![appClicks + 1].idx = 1]
    /\ UNCHANGED << offApp, csvFiles, dateEl, logEl, SETTINGS, pyodide, boot,
                    engineFile, appFetches, appGlobals, appQueue, appAlerts, console,
                    appResets >>

\* The positional arguments of the snippet's call:
\* eng.build_all(files_py, target_date_py, settings_py).
AppCallArgs(g) == << g.files_py, g.target_date_py, g.settings_py >>

\* f.arrayBuffer() of the file at idx settles; pyodide.toPy(buf) throws while
\* pyodide is still null.  After the last file: the date field and SETTINGS are
\* read, the three globals are set, "Building..." is logged and
\* pyodide.runPythonAsync(pyCode) is called; the snippet itself runs when the
\* Python event loop gets to it.
AppFileRead(b, ok) ==
    /\ appBuild[b].pc = "await_file"
    /\ LET me == appBuild[b]
           tuples == Append(me.tuples, <<me.files[me.idx], BytesOf(me.files[me.idx])>>)
           g == [files_py |-> PyListOf(tuples),
                 target_date_py |-> PyStrOf(OrEmpty(getTargetDateISO(dateEl))),
                 settings_py |-> toPy(SETTINGS)]
       IN
       IF ~ok
       THEN /\ AppCatch(b, "file")
            /\ UNCHANGED << appGlobals, appQueue >>
       ELSE IF pyodide = "null"
       THEN /\ AppCatch(b, "pyodide is null")
            /\ UNCHANGED << appGlobals, appQueue >>
       ELSE IF me.idx < Len(me.files)
       THEN /\ appBuild' = [appBuild EXCEPT ![b].tuples = tuples, ![b].idx = me.idx + 1]
            /\ UNCHANGED << logEl, appAlerts, appGlobals, appQueue >>
       ELSE /\ appGlobals' = g
            /\ log("Building...")
            /\ appQueue' = Append(appQueue, b)
            /\ appBuild' = [appBuild EXCEPT ![b].tuples = tuples,
                                            ![b].injected = AppCallArgs(g),
                                            ![b].pc = "await_run"]
            /\ UNCHANGED appAlerts
    /\ UNCHANGED << offApp, csvFiles, dateEl, SETTINGS, pyodide, boot, engineFile,
                    appFetches, console, appClicks, appResets >>

\* _result["engine_loaded"] = True
\* _result["engine_version"] = _result.get("engine_version", "<unknown>")
Stamp(r) ==
    JsObj([k \in DOMAIN r.o \cup {"engine_loaded", "engine_version"} |->
             IF k = "engine_loaded" THEN TRUE
             ELSE IF k = "engine_version" /\ ~Has(r.o, k) THEN "<unknown>"
             ELSE r.o[k]])

\* What the snippet ends in once build_all has ended in ret: item assignment
\* on None raises a TypeError.
AppSnippet(ret) ==
    IF ret.raised \/ ret.v.t = "null" THEN PyRaise ELSE PyReturn(Stamp(ret.v))

\* The results build_all is let to return on this page.
AppEngineResults == {ResFlat, ResNaN, ResNone}

\* The Python event loop runs the oldest queued snippet.  The import (or
\* reload) of engine_pyodide may raise; otherwise build_all is called with the
\* globals as they are now.
AppPythonRuns(b, imported, ret) ==
    /\ NextToRun(appQueue, appBuild, b)
    /\ appBuild' =
         IF imported
         THEN [appBuild EXCEPT ![b].pc = "await_result",
                               ![b].exec = AppCallArgs(appGlobals),
                               ![b].ret = ret,
                               ![b].out = AppSnippet(ret)]
         ELSE [appBuild EXCEPT ![b].pc = "await_result", ![b].out = PyRaise]
    /\ UNCHANGED << offApp, csvFiles, dateEl, logEl, SETTINGS, pyodide, boot,
                    engineFile, appFetches, appGlobals, appQueue, appAlerts, console,
                    appClicks, appResets >>

\* `await pyodide.runPythonAsync(pyCode)` settles: JSON.parse, the "Built OK"
\* line and console.log(result), or the catch.
AppResume(b) ==
    /\ appBuild[b].pc = "await_result"
    /\ appQueue # << >>
    /\ Head(appQueue) = b
    /\ appQueue' = Tail(appQueue)
    /\ LET out == appBuild[b].out
           parsed == JSON_parse(json_dumps(out.v))
       IN
       IF out.raised
       THEN /\ AppCatch(b, "python")
            /\ UNCHANGED console
       ELSE IF ~parsed.ok
       THEN /\ AppCatch(b, "JSON")
            /\ UNCHANGED console
       ELSE /\ log("Built OK - Engine " \o parsed.v.o["engine_version"])
            /\ console' = parsed.v
            /\ appBuild' = [appBuild EXCEPT ![b] = AppFinished("done", "")]
            /\ UNCHANGED appAlerts
    /\ UNCHANGED << offApp, csvFiles, dateEl, SETTINGS, pyodide, boot, engineFile,
                    appFetches, appGlobals, appClicks, appResets >>

\* resetBtn click on the app.js page.
AppReset ==
    /\ appResets < MaxResets
    /\ appResets' = appResets + 1
    /\ csvFiles' = << >>
    /\ dateEl' = EmptyStr
    /\ log("Reset.")
    /\ UNCHANGED << offApp, SETTINGS, pyodide, boot, engineFile, appFetches,
                    appGlobals, appQueue, appAlerts, console, appClicks, appBuild >>

AppNext ==
    \/ \E fs \in FileSelections : AppSelectFiles(fs)
    \/ \E d \in DateInputs : AppTypeDate(d)
    \/ \E ok \in BOOLEAN : BootPyodideSettles(ok)
    \/ \E o \in FetchOutcomes : BootFetchSettles(o)
    \/ \E ok \in BOOLEAN : BootJsonSettles(ok)
    \/ BuildClickNoFiles
    \/ BuildClick
    \/ \E b \in Builds, ok \in BOOLEAN : AppFileRead(b, ok)
    \/ \E b \in Builds, r \in AppEngineResults : AppPythonRuns(b, TRUE, PyReturn(r))
    \/ \E b \in Builds : AppPythonRuns(b, TRUE, PyRaise)
    \/ \E b \in Builds : AppPythonRuns(b, FALSE, NoOutcome)
    \/ \E b \in Builds : AppResume(b)
    \/ AppReset

\* ====================================================================
\* The specifications
\* ====================================================================

vars == << glueVars, appVars >>

Init == GlueInit /\ AppInit

\* The buildData page.
Next == GlueNext

Spec == Init /\ [][Next]_vars

\* A promise some handler of the buildData page awaits settles: one of the two
\* loads of the runtime, or the operation a build is waiting on.
Settling ==
    \/ \E ok \in BOOLEAN : LoadPyodideSettles(ok)
    \/ \E ok \in BOOLEAN : LoadPackageSettles(ok)
    \/ \E b \in Builds : AfterEnsurePyodide(b)
    \/ \E b \in Builds, ok \in BOOLEAN : EngineFetched(b, ok)
    \/ \E b \in Builds, ok \in BOOLEAN : EngineLoaded(b, ok)
    \/ \E b \in Builds, o \in SettingsOutcomes : SettingsSettled(b, o)
    \/ \E b \in Builds, ok \in BOOLEAN : FileRead(b, ok)
    \/ \E b \in Builds, r \in EngineResults : PythonRuns(b, PyReturn(r))
    \/ \E b \in Builds : PythonRuns(b, PyRaise)
    \/ \E b \in Builds : Resume(b)

\* The buildData page when awaited operations settle: while one is pending,
\* one of the pending ones settles in the end.  Clicks and typing are up to the
\* user.
SpecFair == Init /\ [][Next]_vars /\ WF_vars(Settling)

\* The app.js page.
SpecApp == Init /\ [][AppNext]_vars

\* A session on either page: the two scripts run on pages of their own, so one
\* page acts while the other is as it was loaded.
NextEither ==
    \/ AppInit /\ Next
    \/ GlueInit /\ AppNext

SpecEither == Init /\ [][NextEither]_vars

\* The renderers on their own: a build of the buildData page whose snippet has
\* just returned, for every BuildResult of RenderInputs.

\* A department's counts: any of the four regular head counts, or none.
MetricObjects == UNION {[F -> 0..MaxCount] : F \in SUBSET RegularFields}

DeptMaps ==
    {EmptyObj} \cup {[D1 |-> m] : m \in MetricObjects}
               \cup {[D1 |-> m, D2 |-> Metrics1] : m \in MetricObjects}

\* dept_summary keyed by department id, or held under by_department.
SummaryInputs == DeptMaps \cup {[by_department |-> d] : d \in DeptMaps}

RenderInputs ==
    {BuildResultOf(ds, [records |-> JsList(<<VetRec1>>)], JsObjOpaque) :
        ds \in SummaryInputs}

\* The page when the first build's snippet has returned res.
AwaitingResult(res) ==
    LET fs == <<"roster.csv", "presence.csv">>
        fm == [k \in {fs[1], fs[2]} |-> toBytes(BytesOf(k))]
        g == [JS_FILE_MAP |-> PyDictOf(fm), JS_SETTINGS |-> PyDictOf(SettingsDoc),
              JS_TARGET_DATE |-> PyStrOf(EmptyStr)]
    IN
    /\ fileInput = fs
    /\ targetDate = EmptyStr
    /\ status = "Processing in browser..."
    /\ badge = BadgeInitial
    /\ summary = Blank
    /\ vet = Blank
    /\ swaps = Blank
    /\ audit = ""
    /\ alerts = 0
    /\ pyodidePromise = "resolved"
    /\ loadPyodideCalls = 1
    /\ loadPackageCalls = 1
    /\ pyGlobals = g
    /\ pyQueue = <<1>>
    /\ settingsFetches = 1
    /\ clicks = 1
    /\ build = [b \in Builds |->
                  IF b = 1
                  THEN [NotStarted EXCEPT !.pc = "await_result", !.files = fs,
                                          !.idx = 2, !.fileMap = fm,
                                          !.settings = PyDictOf(SettingsDoc),
                                          !.injected = GlueCallArgs(g),
                                          !.exec = GlueCallArgs(g),
                                          !.out = PyReturn(res)]
                  ELSE NotStarted]

InitRender == AppInit /\ \E res \in RenderInputs : AwaitingResult(res)

NextRender == Resume(1)

SpecRender == InitRender /\ [][NextRender]_vars

\* ====================================================================
\* The claims
\* ====================================================================

\* The step in which build b of the buildData page ends as `how`.
GlueEnds(b, how) == build[b].pc # how /\ build'[b].pc = how

\* C1: when a Build click is issued while an earlier build is in flight, the
\* older build's result is never rendered after the newer one's: no build
\* renders its report once a build clicked after it has rendered its own.
C1_NewerBuildSupersedes ==
    [][\A b \in Builds :
         GlueEnds(b, "done") => \A c \in Builds : c > b => build[c].pc # "done"]_vars

\* C2: a build whose settings.json is absent, or cannot be fetched or parsed,
\* never ends in the error path on account of the settings.
C2_MissingSettingsDoNotFailBuild ==
    \A b \in Builds : ~(build[b].pc = "failed" /\ build[b].err = "settings")

\* The contract order of build_all: (files, settings, targetDate).
ContractOrder(args) ==
    /\ args[1].kind \in {"dict", "list"}
    /\ args[2].kind \in {"dict", "none"}
    /\ args[3].kind = "str"

\* C3: every call of build_all made by either script passes the settings
\* mapping second and the target date third.
C3_BuildAllArgumentOrder ==
    /\ \A b \in Builds : build[b].exec # NoArgs => ContractOrder(build[b].exec)
    /\ \A b \in Builds : appBuild[b].exec # NoArgs => ContractOrder(appBuild[b].exec)

\* C4: once the buildBtn handler of app.js has come through a build whose
\* engine call returned, the page shows the three report views.  (app.js
\* writes to #log and to the console only, so the report sections of its page
\* stay as the page load left them.)
C4_AppRendersThreeViews ==
    \A b \in Builds :
        appBuild[b].pc = "done" => summary # Blank /\ vet # Blank /\ swaps # Blank

ReportCleared ==
    /\ summary.html = EmptyHtml
    /\ vet.html = EmptyHtml
    /\ swaps.html = EmptyHtml
    /\ badge.text = BadgeCleared.text

\* C5: in the step in which a build fails, the error message is shown and the
\* displayed report (the three sections and the badge) is left exactly as it
\* was, or is entirely cleared.
C5_FailedBuildLeavesReportWhole ==
    [][\A b \in Builds :
         GlueEnds(b, "failed") =>
            /\ status' = "Error: " \o build'[b].err
            /\ \/ << badge, summary, vet, swaps >>' = << badge, summary, vet, swaps >>
               \/ ReportCleared']_vars

\* C6: settings.json is fetched at most once in a session, on either page.
C6_SettingsFetchedOnce == settingsFetches <= 1 /\ appFetches <= 1

\* C7: when build_all returns a result with exactly the five top-level keys,
\* the result app.js parses and hands on has exactly those five keys.
C7_ResultKeepsItsFiveKeys ==
    [][\A b \in Builds :
         ( /\ appBuild[b].pc = "await_result"
           /\ appBuild'[b].pc = "done"
           /\ DOMAIN appBuild[b].ret.v.o = FiveKeys )
         => DOMAIN console'.o = FiveKeys]_vars

\* The dept_summary of the result build b is about to render, when it is keyed
\* by department id.
KeyedByDepartment(ds) == DOMAIN ds \subseteq DeptIds

\* The rows the claim describes for a summary keyed by department id: one per
\* department, the two regular columns the sums of the AMZN and TEMP counts.
RowsAsSpecified(ds, rows) ==
    /\ Len(rows) = Cardinality(DOMAIN ds)
    /\ {rows[i][1] : i \in 1..Len(rows)} = DOMAIN ds
    /\ \A i \in 1..Len(rows) :
          LET m == ds[rows[i][1]] IN
          /\ rows[i][2] = NumOr0(m, "regular_expected_AMZN")
                          + NumOr0(m, "regular_expected_TEMP")
          /\ rows[i][3] = NumOr0(m, "regular_present_AMZN")
                          + NumOr0(m, "regular_present_TEMP")

\* C8: for a BuildResult whose dept_summary is keyed by department id, the
\* rendered Department Summary table has exactly one row per department id,
\* with Regular Exp and Regular Present the sums of the AMZN and TEMP counts
\* (a missing count taken as 0).
C8_SummaryRowPerDepartment ==
    [][\A b \in Builds :
         ( /\ GlueEnds(b, "done")
           /\ KeyedByDepartment(build[b].out.v.o["dept_summary"]) )
         => RowsAsSpecified(build[b].out.v.o["dept_summary"], summary'.html.rows)]_vars

\* The step in which build b of app.js hands its arguments to Python.
AppInjects(b) == appBuild[b].pc = "await_file" /\ appBuild'[b].pc = "await_run"

\* C9: a build that finds a date entered in the date field hands the engine
\* a non-empty YYYY-MM-DD target date, and hands it the empty target date only
\* when the field is empty.
C9_EnteredDateReachesEngine ==
    [][\A b \in Builds :
         AppInjects(b) =>
            LET d == appBuild'[b].injected[2].val IN
            /\ dateEl # EmptyStr => d # EmptyStr /\ IsISODate(d)
            /\ d = EmptyStr => dateEl = EmptyStr]_vars

\* C10: the engine call started by a click reads exactly the files, settings
\* and target date that the same click put into the Python globals.
C10_EngineReadsItsOwnInputs ==
    \A b \in Builds :
        build[b].pc = "await_result" => build[b].exec = build[b].injected

\* C11: a build that was waiting when Reset was clicked is abandoned: when its
\* result arrives, the badge and the summary, VET/VTO, swaps and audit sections
\* are left as they are.
C11_ResetAbandonsBuild ==
    [][\A b \in Builds :
         ( /\ build[b].cleared
           /\ build[b].pc = "await_result"
           /\ build'[b].pc # "await_result" )
         => UNCHANGED domVars]_vars

\* The step in which the snippet of build b of app.js calls eng.build_all.
AppInvokes(b) ==
    /\ appBuild[b].pc = "await_run"
    /\ appBuild'[b].pc = "await_result"
    /\ appBuild'[b].exec # NoArgs

\* C12: in app.js every call of eng.build_all happens with the runtime set and
\* boot over, and the engine is given null settings only when boot ended
\* without settings (settings.json absent, or its load failed).
C12_EngineRunsAfterBoot ==
    [][\A b \in Builds :
         AppInvokes(b) =>
            /\ pyodide # "null"
            /\ boot = "done"
            /\ appBuild'[b].exec[3] = PyNone => SETTINGS = JsNull]_vars

\* A build has failed on the load of the Python runtime.
RuntimeLoadFailed == \E b \in Builds : build[b].pc = "failed" /\ build[b].err = "runtime"

\* C13: after a build has failed because the runtime load failed, a later
\* Build click with files starts the runtime load again.
C13_FailedLoadIsRetried ==
    [][( /\ RuntimeLoadFailed
         /\ clicks' = clicks + 1
         /\ build'[clicks'].pc = "await_py" )
       => /\ loadPyodideCalls' = loadPyodideCalls + 1
          /\ pyodidePromise' = "loading"]_vars

\* C14: the Python runtime is loaded at most once in a session: loadPyodide
\* and the package load are each started at most once, and every build that
\* has got its runtime got it from that one load.
C14_RuntimeLoadedOnce ==
    /\ loadPyodideCalls <= 1
    /\ loadPackageCalls <= 1
    /\ \A b \in Builds :
          build[b].pc \in Pending \ {"await_py"} =>
             pyodidePromise = "resolved" /\ loadPyodideCalls = 1

\* Two clicks wait on the runtime while its first load is still pending.
C14_ClicksOverlapTheLoad ==
    /\ pyodidePromise \in {"loading", "loading_packages"}
    /\ build[1].pc = "await_py"
    /\ build[2].pc = "await_py"

\* C15: a Build click with no files selected, on either page, shows the alert
\* and returns: the engine is not called, and the report sections, the status
\* or log text, the badge, the Python globals and every other build are after
\* the click as they were before it.
C15_NoFilesClickOnlyAlerts ==
    [][/\ (clicks' = clicks + 1 /\ Len(fileInput) = 0) =>
            /\ alerts' = alerts + 1
            /\ UNCHANGED << fileInput, targetDate, status, domVars, runtimeVars,
                            pyGlobals, pyQueue, settingsFetches >>
            /\ build'[clicks'].pc = "returned"
            /\ build'[clicks'].exec = NoArgs
            /\ \A b \in Builds \ {clicks'} : build'[b] = build[b]
       /\ (appClicks' = appClicks + 1 /\ Len(csvFiles) = 0) =>
            /\ appAlerts' = appAlerts + 1
            /\ UNCHANGED << csvFiles, dateEl, logEl, SETTINGS, pyodide, boot,
                            engineFile, appFetches, appGlobals, appQueue, console >>
            /\ appBuild'[appClicks'].pc = "returned"
            /\ appBuild'[appClicks'].exec = NoArgs
            /\ \A b \in Builds \ {appClicks'} : appBuild'[b] = appBuild[b]]_vars

\* A click with no files has returned while another build of the page waits.
C15_NoFilesClickBesideBuild ==
    \/ \E b, c \in Builds : build[b].pc = "returned" /\ build[c].pc \in Pending
    \/ \E b, c \in Builds :
          /\ appBuild[b].pc = "returned"
          /\ appBuild[c].pc \in {"await_file", "await_run", "await_result"}

\* The messages buildData shows on its way.
Intermediate ==
    {"Loading Pyodide...", "Preparing engine...", "Reading settings...",
     "Processing in browser..."}

\* C16: when every awaited operation settles, every Build click with files
\* ends in "done" or "failed"; the step in which it ends leaves the status at
\* "Done." or "Error: ..."; and whenever no build is waiting, the status is
\* none of the intermediate messages.
C16_EveryBuildSettles ==
    /\ \A b \in Builds :
          (build[b].pc \in Pending) ~> (build[b].pc \in {"done", "failed"})
    /\ [][\A b \in Builds :
            (build[b].pc \in Pending /\ build'[b].pc \notin Pending) =>
               \/ build'[b].pc = "done" /\ status' = "Done."
               \/ build'[b].pc = "failed" /\ status' = "Error: " \o build'[b].err]_vars
    /\ []((\A b \in Builds : build[b].pc \notin Pending) => status \notin Intermediate)

\* Two builds overlapped and both have ended: the second click's result came
\* back first, the first click's after it.
C16_OverlappedBuildsEnded ==
    /\ build[1].pc = "done"
    /\ build[2].pc = "done"
    /\ summary.src = 1
    /\ status = "Done."

====
